---- MODULE Spec2Model ----
(***************************************************************************)
(* The report layer of dircheck: src/src/changes.rs (ChangeType,          *)
(* ChangeCounts) and src/src/reports.rs (Reports).                        *)
(*                                                                         *)
(* The store is the SQLite database the reports read: the tables          *)
(* root_paths, scans, items and changes.  A path is kept the way the code *)
(* keeps it: a TEXT column holds a string of bytes (a sequence of byte    *)
(* values, '/' = 47, '-' = 45, 'a' = 97), which ORDER BY compares byte by *)
(* byte, and std::path::Path reads the same string as a sequence of       *)
(* components.                                                            *)
(***************************************************************************)
EXTENDS Integers, Sequences, FiniteSets

VARIABLES root_paths, scans, items, changes, path_stack, ret

vars == <<root_paths, scans, items, changes, path_stack, ret>>

db == <<root_paths, scans, items, changes>>

None == [none |-> TRUE]

Some(x) == [some |-> x]

Min(a, b) == IF a <= b THEN a ELSE b

Front(s) == SubSeq(s, 1, Len(s) - 1)

Last(s) == s[Len(s)]

\* no report has run yet
NoCall == [op |-> "none"]

(***************************************************************************)
(* Bounds of the model.                                                    *)
(***************************************************************************)
\* deepest path below the root that is enumerated
MaxDepth == 3

\* path_stack is explored up to this many open directories
MaxStack == 3

\* file and directory names: "a" and "a-"
Names == {<<97>>, <<97, 45>>}

\* the root every item lives under: "/r"
RootComponents == << <<114>> >>

RECURSIVE SeqsUpTo(_, _)
SeqsUpTo(S, n) ==
    IF n = 0 THEN {<<>>}
    ELSE LET shorter == SeqsUpTo(S, n - 1)
         IN shorter \cup {Append(s, x) : s \in {t \in shorter : Len(t) = n - 1}, x \in S}

\* the paths below the root, as Path values relative to it
RelPaths == SeqsUpTo(Names, MaxDepth) \ {<<>>}

(***************************************************************************)
(* Strings and std::path::Path.                                            *)
(***************************************************************************)
\* the string of an absolute path: "/" before every component
RECURSIVE PathString(_)
PathString(components) ==
    IF components = <<>> THEN <<>>
    ELSE <<47>> \o Head(components) \o PathString(Tail(components))

\* Path::new(s).components(): the pieces between separators, empty pieces dropped
RECURSIVE SplitFrom(_, _, _)
SplitFrom(s, i, current) ==
    IF i > Len(s)
    THEN IF current = <<>> THEN <<>> ELSE <<current>>
    ELSE IF s[i] = 47
         THEN IF current = <<>> THEN SplitFrom(s, i + 1, <<>>)
              ELSE <<current>> \o SplitFrom(s, i + 1, <<>>)
         ELSE SplitFrom(s, i + 1, Append(current, s[i]))

PathNew(s) == SplitFrom(s, 1, <<>>)

\* Path::starts_with: whole components only
StartsWithAlways(path, base) == TRUE

StartsWith(path, base) ==
    /\ Len(base) <= Len(path)
    /\ SubSeq(path, 1, Len(base)) = base

\* Path::strip_prefix(base).unwrap()
StripPrefix(path, base) == SubSeq(path, Len(base) + 1, Len(path))

\* Path::parent(): None for the empty path
Parent(path) == IF path = <<>> THEN None ELSE Some(Front(path))

\* the byte order of two strings (memcmp, then length): SQLite's BINARY collation
RECURSIVE BytesLeq(_, _)
BytesLeq(s, t) ==
    IF s = <<>> THEN TRUE
    ELSE IF t = <<>> THEN FALSE
    ELSE IF Head(s) # Head(t) THEN Head(s) < Head(t)
    ELSE BytesLeq(Tail(s), Tail(t))

(***************************************************************************)
(* Reports::get_tree_path (reports.rs 134-174).                            *)
(***************************************************************************)
\* lines 141-152: pop until the top of the stack is a prefix of path
RECURSIVE WindDown(_, _)
WindDown(stack, path) ==
    IF stack = <<>> THEN <<>>
    ELSE IF StartsWith(path, Last(stack)) THEN stack
    ELSE WindDown(Front(stack), path)

\* line 148: new_path once the stack is wound down
Uncovered(stack, path) ==
    IF stack = <<>> THEN path ELSE StripPrefix(path, Last(stack))

\* line 161, left out: new_path keeps its directories
FileNameKeepsAll(new_path) == new_path

\* line 161: new_path = Path::new(new_path.file_name().unwrap())
FileName(new_path) == <<Last(new_path)>>

\* lines 153-156: a file whose uncovered part still has a directory in it
HasStructural(new_path, is_dir) ==
    /\ ~is_dir
    /\ Parent(new_path) # None
    /\ Parent(new_path).some # <<>>

get_tree_path(stack, root_path, path_str, is_dir) ==
    LET path == StripPrefix(PathNew(path_str), root_path)
        parent == Parent(path)
        wound == WindDown(stack, path)
        uncovered == Uncovered(wound, path)
        structural == HasStructural(uncovered, is_dir)
        printed == IF structural
                   THEN <<[kind |-> "structural", indent |-> Len(wound),
                           text |-> Parent(uncovered).some]>>
                   ELSE <<>>
        pushed == IF structural THEN Append(wound, parent.some) ELSE wound
        new_path == IF structural THEN FileName(uncovered) ELSE uncovered
        indent_level == Len(pushed)
        final == IF is_dir THEN Append(pushed, path) ELSE pushed
    IN [path_stack |-> final, indent_level |-> indent_level, new_path |-> new_path,
        printed |-> printed, wound |-> wound, at_indent |-> pushed]

(***************************************************************************)
(* ChangeType and ChangeCounts (changes.rs).                               *)
(***************************************************************************)
Ok(x) == [ok |-> x]

Err(x) == [err |-> x]

IsOk(r) == DOMAIN r = {"ok"}

IsErr(r) == DOMAIN r = {"err"}

ChangeTypes == {"Add", "Delete", "Modify", "TypeChange", "NoChange"}

\* lines 26-34
as_db_str(c) ==
    CASE c = "Add" -> "A"
      [] c = "Delete" -> "D"
      [] c = "Modify" -> "M"
      [] c = "TypeChange" -> "T"
      [] c = "NoChange" -> "N"

\* lines 98-109: impl Display
Display(c) ==
    CASE c = "Add" -> "A"
      [] c = "Delete" -> "D"
      [] c = "Modify" -> "M"
      [] c = "TypeChange" -> "T"
      [] c = "NoChange" -> "N"

\* a parser that takes the lower-case letters too
from_str_any_case(s) ==
    CASE s \in {"A", "a"} -> Ok("Add")
      [] s \in {"D", "d"} -> Ok("Delete")
      [] s \in {"M", "m"} -> Ok("Modify")
      [] s \in {"T", "t"} -> Ok("TypeChange")
      [] s \in {"N", "n"} -> Ok("NoChange")
      [] OTHER -> Err("Invalid ChangeType")

\* lines 111-124: impl FromStr
from_str(s) ==
    CASE s = "A" -> Ok("Add")
      [] s = "D" -> Ok("Delete")
      [] s = "M" -> Ok("Modify")
      [] s = "T" -> Ok("TypeChange")
      [] s = "N" -> Ok("NoChange")
      [] OTHER -> Err("Invalid ChangeType")

\* lines 7-14, #[derive(Default)]
ChangeCountsDefault ==
    [add_count |-> 0, modify_count |-> 0, delete_count |-> 0,
     type_change_count |-> 0, unchanged_count |-> 0]

\* lines 64-72
get(cc, change_type) ==
    CASE change_type = "Add" -> cc.add_count
      [] change_type = "Delete" -> cc.delete_count
      [] change_type = "Modify" -> cc.modify_count
      [] change_type = "TypeChange" -> cc.type_change_count
      [] change_type = "NoChange" -> cc.unchanged_count

\* lines 85-94
set(cc, change_type, count) ==
    CASE change_type = "Add" -> [cc EXCEPT !.add_count = count]
      [] change_type = "Delete" -> [cc EXCEPT !.delete_count = count]
      [] change_type = "Modify" -> [cc EXCEPT !.modify_count = count]
      [] change_type = "TypeChange" -> [cc EXCEPT !.type_change_count = count]
      [] change_type = "NoChange" -> [cc EXCEPT !.unchanged_count = count]

\* the same query without its WHERE clause
GroupByChangeTypeAnyScan(table, scan_id) ==
    {[change_type |-> t,
      count |-> Cardinality({i \in DOMAIN table : table[i].change_type = t})] :
        t \in {table[i].change_type : i \in DOMAIN table}}

\* lines 42-46: SELECT change_type, COUNT(*) FROM changes WHERE scan_id = ?
\*              GROUP BY change_type
GroupByChangeType(table, scan_id) ==
    LET matching == {i \in DOMAIN table : table[i].scan_id = scan_id}
    IN {[change_type |-> t,
         count |-> Cardinality({i \in matching : table[i].change_type = t})] :
            t \in {table[i].change_type : i \in matching}}

\* a match that also files the letter N, under the unchanged count
MatchRowWithN(cc, row) ==
    CASE row.change_type = "A" -> [counts |-> set(cc, "Add", row.count), warned |-> FALSE]
      [] row.change_type = "M" -> [counts |-> set(cc, "Modify", row.count), warned |-> FALSE]
      [] row.change_type = "D" -> [counts |-> set(cc, "Delete", row.count), warned |-> FALSE]
      [] row.change_type = "T" -> [counts |-> set(cc, "TypeChange", row.count), warned |-> FALSE]
      [] row.change_type = "N" -> [counts |-> set(cc, "NoChange", row.count), warned |-> FALSE]
      [] OTHER -> [counts |-> cc, warned |-> TRUE]

\* lines 52-58: the match on the letter of one result row
MatchRow(cc, row) ==
    CASE row.change_type = "A" -> [counts |-> set(cc, "Add", row.count), warned |-> FALSE]
      [] row.change_type = "M" -> [counts |-> set(cc, "Modify", row.count), warned |-> FALSE]
      [] row.change_type = "D" -> [counts |-> set(cc, "Delete", row.count), warned |-> FALSE]
      [] row.change_type = "T" -> [counts |-> set(cc, "TypeChange", row.count), warned |-> FALSE]
      [] OTHER -> [counts |-> cc, warned |-> TRUE]

\* lines 48-59: while let Some(row) = rows.next()
RECURSIVE CountRows(_, _, _)
CountRows(rows, cc, warnings) ==
    IF rows = {} THEN [counts |-> cc, warnings |-> warnings]
    ELSE LET row == CHOOSE r \in rows : TRUE
             m == MatchRow(cc, row)
         IN CountRows(rows \ {row}, m.counts,
                      IF m.warned THEN warnings \cup {row.change_type} ELSE warnings)

\* lines 38-62: ChangeCounts::from_scan_id
from_scan_id_result(table, scan_id) ==
    LET done == CountRows(GroupByChangeType(table, scan_id), ChangeCountsDefault, {})
    IN [result |-> Ok(done.counts), warnings |-> done.warnings]

(***************************************************************************)
(* The queries of Reports (reports.rs).                                    *)
(***************************************************************************)
RowOrders(n) ==
    {f \in [1 .. n -> 1 .. n] : \A i, j \in 1 .. n : f[i] = f[j] => i = j}

\* the orders ORDER BY path DESC may return the rows in
OrderByPathDesc(rows) ==
    {[i \in 1 .. Len(rows) |-> rows[f[i]]] :
        f \in {g \in RowOrders(Len(rows)) :
                \A i, j \in 1 .. Len(rows) :
                    i < j => BytesLeq(rows[g[j]].path, rows[g[i]].path)}}

\* ORDER BY path ASC: the rows in an ascending byte order of path; rows with
\* equal paths come in an order SQLite does not fix
OrderByPathAsc(rows) ==
    {[i \in 1 .. Len(rows) |-> rows[f[i]]] :
        f \in {g \in RowOrders(Len(rows)) :
                \A i, j \in 1 .. Len(rows) :
                    i < j => BytesLeq(rows[g[i]].path, rows[g[j]].path)}}

\* the same join without its WHERE clause: the changes of every scan
RECURSIVE JoinItemsAnyScan(_, _, _)
JoinItemsAnyScan(change_table, item_table, scan_id) ==
    IF change_table = <<>> THEN <<>>
    ELSE LET c == Head(change_table)
             rest == JoinItemsAnyScan(Tail(change_table), item_table, scan_id)
             found == {it \in item_table : it.id = c.item_id}
         IN IF found = {} THEN rest
            ELSE LET it == CHOOSE x \in found : TRUE
                 IN <<[id |-> it.id, change_type |-> c.change_type,
                       item_type |-> it.item_type, path |-> it.path]>> \o rest

\* lines 219-222: FROM changes JOIN items ON items.id = changes.item_id
\*                WHERE changes.scan_id = ?
RECURSIVE JoinItems(_, _, _)
JoinItems(change_table, item_table, scan_id) ==
    IF change_table = <<>> THEN <<>>
    ELSE LET c == Head(change_table)
             rest == JoinItems(Tail(change_table), item_table, scan_id)
             found == {it \in item_table : it.id = c.item_id}
         IN IF c.scan_id # scan_id \/ found = {} THEN rest
            ELSE LET it == CHOOSE x \in found : TRUE
                 IN <<[id |-> it.id, change_type |-> c.change_type,
                       item_type |-> it.item_type, path |-> it.path]>> \o rest

RECURSIVE SetToSeq(_)
SetToSeq(S) ==
    IF S = {} THEN <<>>
    ELSE LET x == CHOOSE y \in S : TRUE IN <<x>> \o SetToSeq(S \ {x})

\* a query that leaves the WHERE clause out
SelectAllItems(item_table, scan_id) == SetToSeq(item_table)

\* lines 282-284: FROM items WHERE last_seen_scan_id = ?
SelectItems(item_table, scan_id) ==
    SetToSeq({it \in item_table : it.last_seen_scan_id = scan_id})

\* lines 237-242 and 299-304: call func for every row and count the calls
RECURSIVE ForEachRow(_, _, _)
ForEachRow(rows, calls, count) ==
    IF rows = <<>> THEN [calls |-> calls, count |-> count]
    ELSE ForEachRow(Tail(rows), Append(calls, Head(rows)), count + 1)

(***************************************************************************)
(* The changes table read by ChangeCounts::from_scan_id.                   *)
(***************************************************************************)
\* rows of the changes table at most
MaxChanges == 3

\* the scans that own rows
ScanIds == {1, 2}

\* the scan ids asked for: 3 owns no row
AskedScanIds == {1, 2, 3}

\* what the change_type column may hold: the four persisted kinds, N, and a
\* letter that is no kind at all
Letters == {"A", "M", "D", "T", "N", "X"}

\* what from_str is given
Strings == {"A", "D", "M", "T", "N", "a", "n", "", "AM", "Add", "X"}

CountedRows == [scan_id : ScanIds, item_id : {1}, change_type : Letters]

InitCounts ==
    /\ root_paths = {}
    /\ scans = {}
    /\ items = {}
    /\ changes \in SeqsUpTo(CountedRows, MaxChanges)
    /\ path_stack = <<>>
    /\ ret = NoCall

from_scan_id ==
    \E scan_id \in AskedScanIds :
        LET r == from_scan_id_result(changes, scan_id)
        IN /\ ret' = [op |-> "from_scan_id", scan_id |-> scan_id,
                      result |-> r.result, warnings |-> r.warnings]
           /\ UNCHANGED <<db, path_stack>>

ParseChangeType ==
    \E s \in Strings :
        /\ ret' = [op |-> "from_str", arg |-> s, result |-> from_str(s)]
        /\ UNCHANGED <<db, path_stack>>

ShowChangeType ==
    \E c \in ChangeTypes :
        /\ ret' = [op |-> "as_db_str", arg |-> c, db_str |-> as_db_str(c),
                   display |-> Display(c), parsed |-> from_str(as_db_str(c))]
        /\ UNCHANGED <<db, path_stack>>

NextCounts == from_scan_id \/ ParseChangeType \/ ShowChangeType

SpecCounts == InitCounts /\ [][NextCounts]_vars

(***************************************************************************)
(* The items table read by with_each_scan_item and print_scan_items.       *)
(***************************************************************************)
\* rows of the items table at most
MaxItems == 3

\* the paths of the stored items below the root: a, a-, a/a
ItemRelPaths ==
    {<< <<97>> >>, << <<97, 45>> >>, << <<97>>, <<97>> >>}

\* what a row of items may hold beside its id
ItemFields ==
    [path : {PathString(RootComponents \o rel) : rel \in ItemRelPaths},
     item_type : {"F", "D"},
     last_seen_scan_id : ScanIds]

ItemRow(id, f) ==
    [id |-> id, path |-> f.path, item_type |-> f.item_type,
     last_seen_scan_id |-> f.last_seen_scan_id]

\* the tables of n rows, ids 1 .. n, for every n up to max
ItemTables(fields, max) ==
    {{ItemRow(i, fs[i]) : i \in DOMAIN fs} : fs \in SeqsUpTo(fields, max)}

TheRootPath == [id |-> 1, path |-> PathString(RootComponents)]

TheScans == {[id |-> i, root_path_id |-> 1] : i \in ScanIds}

InitItems ==
    /\ root_paths = {TheRootPath}
    /\ scans = TheScans
    /\ items \in ItemTables(ItemFields, MaxItems)
    /\ changes = <<>>
    /\ path_stack = <<>>
    /\ ret = NoCall

\* a query that also marks the rows it returns as seen by the scan after
with_each_scan_item_marking ==
    \E scan_id \in AskedScanIds :
        \E rows \in OrderByPathAsc(SelectItems(items, scan_id)) :
            LET each == ForEachRow(rows, <<>>, 0)
            IN /\ ret' = [op |-> "with_each_scan_item", scan_id |-> scan_id,
                          calls |-> each.calls, result |-> Ok(each.count)]
               /\ items' = {IF it.last_seen_scan_id = scan_id
                            THEN [it EXCEPT !.last_seen_scan_id = scan_id + 1]
                            ELSE it : it \in items}
               /\ UNCHANGED <<root_paths, scans, changes, path_stack>>

\* lines 275-306: Reports::with_each_scan_item
with_each_scan_item ==
    \E scan_id \in AskedScanIds :
        \E rows \in OrderByPathAsc(SelectItems(items, scan_id)) :
            LET each == ForEachRow(rows, <<>>, 0)
            IN /\ ret' = [op |-> "with_each_scan_item", scan_id |-> scan_id,
                          calls |-> each.calls, result |-> Ok(each.count)]
               /\ UNCHANGED <<db, path_stack>>

\* Utils is not part of the report layer's two files; lines 197-203, 262-267
\* print one line per entry: the indent, the id, the fragment, "/" for a directory
EntryLine(row, r) ==
    [kind |-> "entry", indent |-> r.indent_level, id |-> row.id,
     name |-> r.new_path, is_dir |-> row.item_type = "D"]

\* lines 186-204 and 256-268: the callback, once per row, on one path_stack
RECURSIVE PrintTree(_, _, _, _)
PrintTree(rows, root_path, stack, done) ==
    IF rows = <<>> THEN [lines |-> done.lines, trace |-> done.trace, path_stack |-> stack]
    ELSE LET row == Head(rows)
             is_dir == row.item_type = "D"
             r == get_tree_path(stack, root_path, row.path, is_dir)
         IN PrintTree(Tail(rows), root_path, r.path_stack,
                      [lines |-> done.lines \o r.printed \o <<EntryLine(row, r)>>,
                       trace |-> Append(done.trace,
                                        [path |-> StripPrefix(PathNew(row.path), root_path),
                                         is_dir |-> is_dir, result |-> r])])

\* lines 89-93
print_none_if_zero(i) == IF i = 0 THEN <<[kind |-> "none"]>> ELSE <<>>

\* lines 85-87
print_section_header(header) == <<[kind |-> "section", text |-> header]>>

\* lines 246-273: Reports::print_scan_items, rows being the query's result
print_scan_items_result(rows, root_path) ==
    LET walked == PrintTree(rows, PathNew(root_path.path), <<>>,
                            [lines |-> <<>>, trace |-> <<>>])
        each == ForEachRow(rows, <<>>, 0)
    IN [out |-> print_section_header("Items") \o walked.lines
                  \o print_none_if_zero(each.count),
        trace |-> walked.trace, path_stack |-> walked.path_stack,
        count |-> each.count]

print_scan_items ==
    \E scan \in scans, root_path \in root_paths :
        \E rows \in OrderByPathAsc(SelectItems(items, scan.id)) :
            LET r == print_scan_items_result(rows, root_path)
            IN /\ scan.root_path_id = root_path.id
               /\ ret' = [op |-> "print_scan_items", scan_id |-> scan.id,
                          rows |-> rows, out |-> r.out, trace |-> r.trace,
                          result |-> Ok(<<>>)]
               /\ UNCHANGED <<db, path_stack>>

NextItems == with_each_scan_item \/ print_scan_items

SpecItems == InitItems /\ [][NextItems]_vars

(***************************************************************************)
(* Reports::print_root_path_scans (reports.rs 314-374).                    *)
(***************************************************************************)
\* line 19
DEFAULT_COUNT == 10

\* rows of the scans table at most
MaxScans == 12

RootIds == {1, 2}

\* the counts asked for: none given, a negative one, 0, and some positive ones
Counts == {None, Some(-1), Some(0), Some(1), Some(2), Some(11)}

\* the scans table in descending id order; id is the table's key
RECURSIVE OrderByIdDesc(_)
OrderByIdDesc(S) ==
    IF S = {} THEN <<>>
    ELSE LET m == CHOOSE x \in S : \A y \in S : y.id <= x.id
         IN <<m>> \o OrderByIdDesc(S \ {m})

\* a query without its LIMIT clause
LimitNone(rows, n) == rows

\* LIMIT ?: SQLite takes a negative limit for no limit at all
Limit(rows, n) ==
    IF n < 0 THEN rows ELSE SubSeq(rows, 1, Min(n, Len(rows)))

\* lines 326-332: FROM scans WHERE root_path_id = ? ORDER BY id DESC LIMIT ?
SelectRootPathScans(scan_table, root_path_id, count) ==
    Limit(OrderByIdDesc({sc \in scan_table : sc.root_path_id = root_path_id}), count)

\* lines 345-367: the header before the first row, then a line per row
RECURSIVE PrintScanRows(_, _, _)
PrintScanRows(rows, printed_header, lines) ==
    IF rows = <<>> THEN [lines |-> lines, printed_header |-> printed_header]
    ELSE PrintScanRows(Tail(rows), TRUE,
            lines \o (IF printed_header THEN <<>> ELSE <<[kind |-> "header"]>>)
                  \o <<[kind |-> "row", scan_id |-> Head(rows).id]>>)

print_root_path_scans_result(scan_table, root_path_id, count_given) ==
    LET count == IF count_given = None THEN DEFAULT_COUNT ELSE count_given.some
        printed == PrintScanRows(SelectRootPathScans(scan_table, root_path_id, count),
                                 FALSE, <<>>)
    IN IF count = 0 THEN <<>>
       ELSE print_section_header("Scans") \o printed.lines
              \o (IF printed.printed_header THEN <<>> ELSE <<[kind |-> "none"]>>)

\* the registered roots: "/r", and "/r-" for every other id
RootPathString(id) ==
    IF id = 1 THEN PathString(RootComponents) ELSE PathString(<< <<114, 45>> >>)

\* the scans tables of n rows, ids 1 .. n, each scan of one of the roots
ScanTables(max) ==
    {{[id |-> i, root_path_id |-> owner[i]] : i \in DOMAIN owner} :
        owner \in SeqsUpTo(RootIds, max)}

InitRootScans ==
    /\ root_paths = {[id |-> i, path |-> RootPathString(i)] : i \in RootIds}
    /\ scans \in ScanTables(MaxScans)
    /\ items = {}
    /\ changes = <<>>
    /\ path_stack = <<>>
    /\ ret = NoCall

print_root_path_scans ==
    \E root_path_id \in RootIds, count \in Counts :
        /\ ret' = [op |-> "print_root_path_scans", root_path_id |-> root_path_id,
                   count |-> count, result |-> Ok(<<>>),
                   out |-> print_root_path_scans_result(scans, root_path_id, count)]
        /\ UNCHANGED <<db, path_stack>>

SpecRootScans == InitRootScans /\ [][print_root_path_scans]_vars

(***************************************************************************)
(* The whole report layer on one store.                                    *)
(***************************************************************************)
\* rows of the changes table at most, where the items table is filled too
MaxJoinedChanges == 2

\* the items of the store: a directory, a file beside it, a file in it
StoredItemFields ==
    {[path |-> PathString(RootComponents \o << <<97>> >>), item_type |-> "D",
      last_seen_scan_id |-> 1],
     [path |-> PathString(RootComponents \o << <<97, 45>> >>), item_type |-> "F",
      last_seen_scan_id |-> 1],
     [path |-> PathString(RootComponents \o << <<97>>, <<97>> >>), item_type |-> "F",
      last_seen_scan_id |-> 2]}

\* the rows of changes: item 1 or 2, which the items table may not hold
JoinedRows == [scan_id : ScanIds, item_id : {1, 2}, change_type : {"A", "N"}]

Init ==
    /\ root_paths = {TheRootPath}
    /\ scans = TheScans
    /\ items \in ItemTables(StoredItemFields, 2)
    /\ changes \in SeqsUpTo(JoinedRows, MaxJoinedChanges)
    /\ path_stack = <<>>
    /\ ret = NoCall

\* lines 212-244: Reports::with_each_scan_change
with_each_scan_change ==
    \E scan_id \in AskedScanIds :
        \E rows \in OrderByPathAsc(JoinItems(changes, items, scan_id)) :
            LET each == ForEachRow(rows, <<>>, 0)
            IN /\ ret' = [op |-> "with_each_scan_change", scan_id |-> scan_id,
                          calls |-> each.calls, result |-> Ok(each.count)]
               /\ UNCHANGED <<db, path_stack>>

\* lines 176-210: Reports::print_scan_changes, rows being the query's result
print_scan_changes_result(rows, root_path) ==
    LET walked == PrintTree(rows, PathNew(root_path.path), <<>>,
                            [lines |-> <<>>, trace |-> <<>>])
        each == ForEachRow(rows, <<>>, 0)
    IN [out |-> print_section_header("Changed Items") \o walked.lines
                  \o print_none_if_zero(each.count),
        trace |-> walked.trace, count |-> each.count]

\* Scan::new_from_id: the scan of that id, the latest scan when no id is given
Scan_new_from_id(scan_table, scan_id) ==
    LET found == IF scan_id = None
                 THEN {sc \in scan_table : \A other \in scan_table : other.id <= sc.id}
                 ELSE {sc \in scan_table : sc.id = scan_id.some}
    IN IF found = {} THEN Err("scan not found") ELSE Ok(CHOOSE sc \in found : TRUE)

\* RootPath::get
RootPath_get(root_table, root_path_id) ==
    LET found == {rp \in root_table : rp.id = root_path_id}
    IN IF found = {} THEN Err("root path not found") ELSE Ok(CHOOSE rp \in found : TRUE)

\* Scan::for_each_scan: the newest scans first, count of them at most
Scan_for_each_scan(scan_table, count_given) ==
    LET count == IF count_given = None THEN DEFAULT_COUNT ELSE count_given.some
    IN Limit(OrderByIdDesc(scan_table), count)

\* lines 95-120: the table of scans, a line per row
ScansTable(title, rows) ==
    <<[kind |-> "table", text |-> title]>>
        \o [i \in DOMAIN rows |-> [kind |-> "row", scan_id |-> rows[i].id]]

\* lines 45-65: Reports::print_scans
print_scans_result(scan_table, count) ==
    LET rows == Scan_for_each_scan(scan_table, count)
    IN ScansTable("Scans", rows)
         \o (IF Len(rows) = 0 THEN <<[kind |-> "no scans"]>> ELSE <<>>)

\* lines 122-132: Reports::print_root_path_block
print_root_path_block(scan_table, root_path, with_scans, count) ==
    <<[kind |-> "title", text |-> "Root Path"],
      [kind |-> "root path", path |-> root_path.path],
      [kind |-> "id", id |-> root_path.id]>>
        \o (IF with_scans
            THEN print_root_path_scans_result(scan_table, root_path.id, count)
            ELSE <<>>)

\* RootPath::for_each_root_path: the block of every registered root
RECURSIVE RootPath_for_each_root_path(_, _, _, _)
RootPath_for_each_root_path(root_table, scan_table, with_scans, count) ==
    IF root_table = {} THEN <<>>
    ELSE LET rp == CHOOSE x \in root_table : \A y \in root_table : x.id <= y.id
         IN print_root_path_block(scan_table, rp, with_scans, count)
              \o RootPath_for_each_root_path(root_table \ {rp}, scan_table,
                                             with_scans, count)

\* lines 21-43: Reports::do_report_scans
do_report_scans ==
    \/ \E count \in {Some(0), Some(1)} :
        \* line 25: a count was given
        /\ ret' = [op |-> "do_report_scans", result |-> Ok(<<>>),
                   out |-> print_scans_result(scans, count)]
        /\ UNCHANGED <<db, path_stack>>
    \/ \E scan_id \in {None, Some(1), Some(3)}, with_changes \in BOOLEAN,
          with_items \in BOOLEAN :
        \* lines 27-39: one scan, by id or the latest
        LET scan == Scan_new_from_id(scans, scan_id)
            root_path == RootPath_get(root_paths, scan.ok.root_path_id)
        IN /\ IF IsErr(scan)
              THEN ret' = [op |-> "do_report_scans", result |-> scan, out |-> <<>>]
              ELSE IF IsErr(root_path)
              THEN ret' = [op |-> "do_report_scans", result |-> root_path, out |-> <<>>]
              ELSE \E changed \in OrderByPathAsc(JoinItems(changes, items, scan.ok.id)),
                      seen \in OrderByPathAsc(SelectItems(items, scan.ok.id)) :
                    ret' = [op |-> "do_report_scans", result |-> Ok(<<>>),
                            out |-> ScansTable("Scan", <<scan.ok>>)
                               \o (IF with_changes
                                   THEN print_scan_changes_result(changed, root_path.ok).out
                                   ELSE <<>>)
                               \o (IF with_items
                                   THEN print_scan_items_result(seen, root_path.ok).out
                                   ELSE <<>>)]
           /\ UNCHANGED <<db, path_stack>>

print_scans ==
    \E count \in {None, Some(0), Some(1)} :
        /\ ret' = [op |-> "print_scans", result |-> Ok(<<>>),
                   out |-> print_scans_result(scans, count)]
        /\ UNCHANGED <<db, path_stack>>

\* lines 67-79: Reports::report_root_paths
report_root_paths ==
    \E root_path_id \in {None, Some(1), Some(2)}, with_scans \in BOOLEAN,
       count \in {None, Some(1)} :
        LET root_path == RootPath_get(root_paths, root_path_id.some)
        IN /\ IF root_path_id = None
              THEN ret' = [op |-> "report_root_paths", result |-> Ok(<<>>),
                           out |-> RootPath_for_each_root_path(root_paths, scans,
                                                               with_scans, count)]
              ELSE IF IsErr(root_path)
              THEN ret' = [op |-> "report_root_paths", result |-> root_path, out |-> <<>>]
              ELSE ret' = [op |-> "report_root_paths", result |-> Ok(<<>>),
                           out |-> print_root_path_block(scans, root_path.ok,
                                                         with_scans, count)]
           /\ UNCHANGED <<db, path_stack>>

Next ==
    \/ from_scan_id
    \/ with_each_scan_change
    \/ with_each_scan_item
    \/ do_report_scans
    \/ print_scans
    \/ report_root_paths

Spec == Init /\ [][Next]_vars

(***************************************************************************)
(* The two readers of the changes table, asked about one scan of one       *)
(* store: ChangeCounts::from_scan_id and Reports::with_each_scan_change.   *)
(***************************************************************************)
\* rows of the changes table at most, where both readers are asked
MaxAgreeChanges == 2

\* the letters of the four persisted kinds
PersistedLetters == {"A", "M", "D", "T"}

\* the rows of changes: the four persisted letters and N, on item 1 or 2
AgreeRows ==
    [scan_id : ScanIds, item_id : {1, 2}, change_type : PersistedLetters \cup {"N"}]

\* the items table: empty, item 1 alone, or items 1 and 2
AgreeItemTables ==
    LET fs == <<[path |-> PathString(RootComponents \o << <<97>> >>),
                 item_type |-> "D", last_seen_scan_id |-> 1],
                [path |-> PathString(RootComponents \o << <<97>>, <<97>> >>),
                 item_type |-> "F", last_seen_scan_id |-> 1]>>
    IN {{ItemRow(i, fs[i]) : i \in 1 .. n} : n \in 0 .. 2}

InitAgree ==
    /\ root_paths = {TheRootPath}
    /\ scans = TheScans
    /\ items \in AgreeItemTables
    /\ changes \in SeqsUpTo(AgreeRows, MaxAgreeChanges)
    /\ path_stack = <<>>
    /\ ret = NoCall

\* changes.rs 38-62 and reports.rs 212-244, both called with one scan_id
from_scan_id_and_with_each_scan_change ==
    \E scan_id \in AskedScanIds :
        \E rows \in OrderByPathAsc(JoinItems(changes, items, scan_id)) :
            LET counted == from_scan_id_result(changes, scan_id)
                each == ForEachRow(rows, <<>>, 0)
            IN /\ ret' = [op |-> "from_scan_id_and_with_each_scan_change",
                          scan_id |-> scan_id,
                          counts |-> counted.result, warnings |-> counted.warnings,
                          calls |-> each.calls, result |-> Ok(each.count)]
               /\ UNCHANGED <<db, path_stack>>

SpecAgree == InitAgree /\ [][from_scan_id_and_with_each_scan_change]_vars

(***************************************************************************)
(* A path_stack and the calls made on it, in any order.                    *)
(***************************************************************************)
EmptyStore ==
    /\ root_paths = {}
    /\ scans = {}
    /\ items = {}
    /\ changes = <<>>

InitTree ==
    /\ EmptyStore
    /\ path_stack = <<>>
    /\ ret = NoCall

\* lines 180, 251: let mut path_stack = Vec::new()
NewPathStack ==
    /\ path_stack # <<>>
    /\ path_stack' = <<>>
    /\ ret' = NoCall
    /\ UNCHANGED db

CallGetTreePath ==
    \E rel \in RelPaths, is_dir \in BOOLEAN :
        LET r == get_tree_path(path_stack, RootComponents,
                               PathString(RootComponents \o rel), is_dir)
        IN /\ Len(r.path_stack) <= MaxStack
           /\ path_stack' = r.path_stack
           /\ ret' = [op |-> "get_tree_path", path |-> rel, is_dir |-> is_dir,
                      before |-> path_stack, result |-> r]
           /\ UNCHANGED db

NextTree == CallGetTreePath \/ NewPathStack

SpecTree == InitTree /\ [][NextTree]_vars

(***************************************************************************)
(* Claims about get_tree_path on one stack, calls in any order.            *)
(***************************************************************************)
IsPrefixChain(stack) ==
    \A i \in 1 .. Len(stack) - 1 : StartsWith(stack[i + 1], stack[i])

AllPrefixesOf(stack, path) ==
    \A i \in DOMAIN stack : StartsWith(path, stack[i])

\* the stack's top is exactly this directory (the empty stack stands for the root)
TopIs(stack, dir) ==
    IF stack = <<>> THEN dir = <<>> ELSE Last(stack) = dir

\* a file entry whose own path is still open on the stack as a directory
FileOnOpenDirectory ==
    /\ ret.op = "get_tree_path"
    /\ ~ret.is_dir
    /\ ret.result.wound # <<>>
    /\ Last(ret.result.wound) = ret.path

\* C7 as stated: path_stack holds only open ancestors.  Every element of
\* path_stack is a prefix of the element above it and of the path of the entry
\* just processed; after a file the top is the file's parent, after a directory
\* the top is the directory itself; and the stack as wound down, before
\* anything is printed, holds only prefixes of the current path.
C7_OpenAncestorsAsStated ==
    /\ IsPrefixChain(path_stack)
    /\ ret.op = "get_tree_path" =>
        /\ AllPrefixesOf(path_stack, ret.path)
        /\ AllPrefixesOf(ret.result.wound, ret.path)
        /\ ret.is_dir => (path_stack # <<>> /\ Last(path_stack) = ret.path)
        /\ ~ret.is_dir => TopIs(path_stack, Front(ret.path))

\* C7 amended: the same, except that a file whose own path is already on top
\* of the stack (a directory entry with the same path is still open) leaves that
\* path on top instead of its parent.
C7_OpenAncestors ==
    /\ IsPrefixChain(path_stack)
    /\ ret.op = "get_tree_path" =>
        /\ AllPrefixesOf(path_stack, ret.path)
        /\ AllPrefixesOf(ret.result.wound, ret.path)
        /\ ret.is_dir => (path_stack # <<>> /\ Last(path_stack) = ret.path)
        /\ ~ret.is_dir =>
            IF FileOnOpenDirectory
            THEN Last(path_stack) = ret.path
            ELSE TopIs(path_stack, Front(ret.path))

\* a call that popped an element and left a chain of two open directories
C7_Witness ==
    /\ ret.op = "get_tree_path"
    /\ Len(ret.result.wound) < Len(ret.before)
    /\ Len(path_stack) >= 2
    /\ ~ret.is_dir

\* C10: get_tree_path loses no path information.  The element of the stack on
\* top when the indent level is taken (the empty path for an empty stack),
\* joined with the returned fragment, is the entry's path relative to the root;
\* the indent level is the stack length before a directory pushes itself.
C10_NoPathLost ==
    ret.op = "get_tree_path" =>
        LET r == ret.result
            own == IF ret.is_dir THEN 1 ELSE 0
            top == IF r.indent_level = 0 THEN <<>> ELSE r.path_stack[r.indent_level]
        IN /\ r.indent_level = Len(r.path_stack) - own
           /\ top \o r.new_path = ret.path

\* a file below an open directory whose structural line was printed and pushed
C10_Witness ==
    /\ ret.op = "get_tree_path"
    /\ ~ret.is_dir
    /\ ret.result.printed # <<>>
    /\ ret.result.wound # <<>>
    /\ ret.result.indent_level = 2

(***************************************************************************)
(* Claims about ChangeCounts and ChangeType.                               *)
(***************************************************************************)
RowsOfKind(scan_id, letter) ==
    {i \in DOMAIN changes :
        changes[i].scan_id = scan_id /\ changes[i].change_type = letter}

\* C1: from_scan_id returns the counts per kind.  For each of Add, Modify,
\* Delete and TypeChange, get(kind) is the number of rows of the changes table
\* with the given scan_id and the kind's letter (A, M, D, T); rows of other
\* scans do not count and a scan without rows has all four counts 0.
C1_CountsPerKind ==
    ret.op = "from_scan_id" =>
        /\ IsOk(ret.result)
        /\ get(ret.result.ok, "Add") = Cardinality(RowsOfKind(ret.scan_id, "A"))
        /\ get(ret.result.ok, "Modify") = Cardinality(RowsOfKind(ret.scan_id, "M"))
        /\ get(ret.result.ok, "Delete") = Cardinality(RowsOfKind(ret.scan_id, "D"))
        /\ get(ret.result.ok, "TypeChange") = Cardinality(RowsOfKind(ret.scan_id, "T"))

\* two rows of one kind and one of another for the scan asked, a row of another scan
C1_Witness ==
    /\ ret.op = "from_scan_id"
    /\ ret.scan_id = 1
    /\ Cardinality(RowsOfKind(1, "M")) = 2
    /\ \E i \in DOMAIN changes : changes[i].scan_id = 2 /\ changes[i].change_type = "M"

\* C5: the unchanged count is derived, not stored.  from_scan_id returns
\* get(NoChange) = 0 whatever the table holds; a row whose letter is none of
\* A, M, D, T (N included) is added to none of the four counts and does not
\* make from_scan_id fail.
C5_UnchangedNotStored ==
    ret.op = "from_scan_id" =>
        /\ IsOk(ret.result)
        /\ get(ret.result.ok, "NoChange") = 0
        /\ get(ret.result.ok, "Add") + get(ret.result.ok, "Modify")
             + get(ret.result.ok, "Delete") + get(ret.result.ok, "TypeChange")
           = Cardinality({i \in DOMAIN changes :
                            /\ changes[i].scan_id = ret.scan_id
                            /\ changes[i].change_type \in {"A", "M", "D", "T"}})

\* the scan asked has a row N, a row X and a row of a persisted kind
C5_Witness ==
    /\ ret.op = "from_scan_id"
    /\ RowsOfKind(ret.scan_id, "N") # {}
    /\ RowsOfKind(ret.scan_id, "X") # {}
    /\ RowsOfKind(ret.scan_id, "A") # {}

\* C8: the letter codes round-trip.  as_db_str and Display give the same
\* single letter; Add, Modify, Delete, TypeChange are A, M, D, T, pairwise
\* distinct, and NoChange is N; from_str(as_db_str(c)) = Ok(c); from_str of a
\* string that is not exactly A, D, M, T or N is an error.
C8_LettersRoundTrip ==
    /\ ret.op = "as_db_str" =>
        /\ ret.db_str = ret.display
        /\ Len(ret.db_str) = 1
        /\ ret.parsed = Ok(ret.arg)
        /\ ret.arg = "Add" => ret.db_str = "A"
        /\ ret.arg = "Modify" => ret.db_str = "M"
        /\ ret.arg = "Delete" => ret.db_str = "D"
        /\ ret.arg = "TypeChange" => ret.db_str = "T"
        /\ ret.arg = "NoChange" => ret.db_str = "N"
    /\ ret.op = "from_str" =>
        /\ ret.arg \notin {"A", "D", "M", "T", "N"} => IsErr(ret.result)
        /\ ret.arg \in {"A", "D", "M", "T", "N"} =>
            /\ IsOk(ret.result)
            /\ as_db_str(ret.result.ok) = ret.arg

\* a kind was written and read back
C8_Witness ==
    /\ ret.op = "as_db_str"
    /\ ret.arg = "TypeChange"
    /\ ret.parsed = Ok("TypeChange")

(***************************************************************************)
(* Claims about the items query and the tree printed from it.              *)
(***************************************************************************)
IsAscendingByPath(calls) ==
    \A i, j \in DOMAIN calls : i < j => BytesLeq(calls[i].path, calls[j].path)

CallsWith(calls, id) == {k \in DOMAIN calls : calls[k].id = id}

\* C3: with_each_scan_item yields exactly the items whose last_seen_scan_id is
\* scan_id, ordered by path.  f is called once for each such item, with the
\* item's own columns, and for no other item; the calls are in ascending path
\* order; the number returned is the number of such items.
C3_ItemsOfScanByPath ==
    ret.op = "with_each_scan_item" =>
        /\ \A it \in items :
            Cardinality(CallsWith(ret.calls, it.id))
              = IF it.last_seen_scan_id = ret.scan_id THEN 1 ELSE 0
        /\ \A k \in DOMAIN ret.calls : ret.calls[k] \in items
        /\ IsAscendingByPath(ret.calls)
        /\ ret.result = Ok(Cardinality({it \in items :
                                          it.last_seen_scan_id = ret.scan_id}))

\* two items of the scan, stored against their path order, and one of another scan
C3_Witness ==
    /\ ret.op = "with_each_scan_item"
    /\ Len(ret.calls) = 2
    /\ ret.calls[1].id > ret.calls[2].id
    /\ ret.calls[1].path # ret.calls[2].path
    /\ \E it \in items : it.last_seen_scan_id # ret.scan_id

\* the rows are the entries of a tree: no path twice, and every directory above
\* an entry is itself a row, of type D
EveryDirectoryIsAnEntry(trace) ==
    /\ \A i, j \in DOMAIN trace : trace[i].path = trace[j].path => i = j
    /\ \A i \in DOMAIN trace :
        \A n \in 1 .. Len(trace[i].path) - 1 :
            \E j \in DOMAIN trace :
                /\ trace[j].path = SubSeq(trace[i].path, 1, n)
                /\ trace[j].is_dir

\* every entry found its parent on top of the stack
EveryEntryUnderItsParent(trace) ==
    \A k \in DOMAIN trace :
        LET t == trace[k]
        IN /\ TopIs(t.result.wound, Front(t.path))
           /\ t.result.new_path = <<Last(t.path)>>
           /\ t.result.printed = <<>>
           /\ t.result.indent_level = Len(t.path) - 1

\* C6: the tree reconstruction needs only the byte order of the path strings.
\* When the rows come in ascending byte order of path (as ORDER BY path ASC
\* gives them) and every directory is a row of its own, then for every entry
\* the stack's top after winding down is the entry's parent (the empty stack
\* for a top-level entry), the fragment is the entry's last component, no
\* structural directory line is printed and the indent is the entry's depth.
C6_ByteOrderSuffices ==
    ret.op = "print_scan_items" =>
        (IsAscendingByPath(ret.rows) /\ EveryDirectoryIsAnEntry(ret.trace)
            => EveryEntryUnderItsParent(ret.trace))

\* the order of the paths read component by component: a directory comes right
\* before everything below it
RECURSIVE ComponentsLeq(_, _)
ComponentsLeq(p, q) ==
    IF p = <<>> THEN TRUE
    ELSE IF q = <<>> THEN FALSE
    ELSE IF Head(p) # Head(q) THEN BytesLeq(Head(p), Head(q))
    ELSE ComponentsLeq(Tail(p), Tail(q))

\* what does hold of print_scan_items: the same conclusion for rows that are
\* also ascending when their paths are compared component by component
C6_ComponentOrderSuffices ==
    ret.op = "print_scan_items" =>
        LET ascending ==
                \A i, j \in DOMAIN ret.trace :
                    i < j => ComponentsLeq(ret.trace[i].path, ret.trace[j].path)
        IN (EveryDirectoryIsAnEntry(ret.trace) /\ ascending)
                => EveryEntryUnderItsParent(ret.trace)

(***************************************************************************)
(* Claims about print_root_path_scans.                                     *)
(***************************************************************************)
ListedScanIds(out) ==
    LET rows == SelectSeq(out, LAMBDA l : l.kind = "row")
    IN [i \in DOMAIN rows |-> rows[i].scan_id]

HasLine(out, kind) == \E i \in DOMAIN out : out[i].kind = kind

GivenCount(count) == IF count = None THEN 10 ELSE count.some

ScansOfRoot(root_path_id) == {sc \in scans : sc.root_path_id = root_path_id}

\* what C9 says beside the bound on the number of scans listed
C9_ListedNewestFirst ==
    LET listed == ListedScanIds(ret.out)
        count == GivenCount(ret.count)
        mine == ScansOfRoot(ret.root_path_id)
    IN /\ \A i \in DOMAIN listed : \E sc \in mine : sc.id = listed[i]
       /\ \A i, j \in DOMAIN listed : i < j => listed[i] > listed[j]
       /\ count = 0 => ret.out = <<>>
       /\ (count # 0 /\ mine = {}) => (HasLine(ret.out, "none") /\ ~HasLine(ret.out, "header"))
       /\ (count # 0 /\ mine # {}) => (HasLine(ret.out, "header") /\ ~HasLine(ret.out, "none"))

\* C9 as stated: print_root_path_scans lists only scans of the given root,
\* newest first, and at most count of them, count being 10 when not given;
\* with count 0 it prints nothing, and for a root without scans it prints
\* None and no table header.
C9_AtMostCountAsStated ==
    ret.op = "print_root_path_scans" =>
        /\ C9_ListedNewestFirst
        /\ Len(ListedScanIds(ret.out)) <= GivenCount(ret.count)

\* C9 amended: at most count of them when count is not negative; a negative
\* count lists every scan of the root.
C9_AtMostCount ==
    ret.op = "print_root_path_scans" =>
        /\ C9_ListedNewestFirst
        /\ GivenCount(ret.count) >= 0 =>
                Len(ListedScanIds(ret.out)) <= GivenCount(ret.count)
        /\ GivenCount(ret.count) < 0 =>
                Len(ListedScanIds(ret.out)) = Cardinality(ScansOfRoot(ret.root_path_id))

\* no count given, and the root has more scans than the default lists
C9_Witness ==
    /\ ret.op = "print_root_path_scans"
    /\ ret.count = None
    /\ Cardinality(ScansOfRoot(ret.root_path_id)) > 10
    /\ Len(ListedScanIds(ret.out)) = 10
    /\ \E sc \in scans : sc.root_path_id # ret.root_path_id

(***************************************************************************)
(* Claims about the changes query and the store as a whole.                *)
(***************************************************************************)
ChangeRowsOf(scan_id, item_id, letter) ==
    {i \in DOMAIN changes :
        /\ changes[i].scan_id = scan_id
        /\ changes[i].item_id = item_id
        /\ changes[i].change_type = letter}

CallsOf(calls, item_id, letter) ==
    {k \in DOMAIN calls : calls[k].id = item_id /\ calls[k].change_type = letter}

\* every call carries the columns of the item it names
CallsCarryItems(calls) ==
    \A k \in DOMAIN calls :
        \E it \in items :
            /\ it.id = calls[k].id
            /\ it.path = calls[k].path
            /\ it.item_type = calls[k].item_type

C4_ReadOnly ==
    [][/\ root_paths' = root_paths
       /\ scans' = scans
       /\ items' = items
       /\ changes' = changes]_vars

\* a report that failed, on a store with rows in every table
C4_Witness ==
    /\ ret.op = "do_report_scans"
    /\ IsErr(ret.result)
    /\ items # {}
    /\ changes # <<>>
    /\ scans # {}
    /\ root_paths # {}

(***************************************************************************)
(* C11                                                                     *)
(***************************************************************************)
\* every change row names an item the items table holds
EveryChangeHasItsItem ==
    \A i \in DOMAIN changes : \E it \in items : it.id = changes[i].item_id

\* every change row carries the letter of a persisted kind
EveryChangeIsPersistedKind ==
    \A i \in DOMAIN changes : changes[i].change_type \in {"A", "M", "D", "T"}

CallsWithLetter(calls, letter) ==
    Cardinality({i \in DOMAIN calls : calls[i].change_type = letter})

BothAsked == ret.op = "from_scan_id_and_with_each_scan_change"

\* C11: in a store where every change row references an existing item and has
\* a change_type among A, M, D, T, and for every scan_id, the number returned
\* by with_each_scan_change is get(Add) + get(Modify) + get(Delete) +
\* get(TypeChange) of from_scan_id for the same scan, and for each of these
\* kinds the number of callbacks carrying its letter is that kind's count.
C11_InterfacesAgree ==
    (BothAsked /\ EveryChangeHasItsItem /\ EveryChangeIsPersistedKind) =>
        /\ IsOk(ret.counts)
        /\ ret.result = Ok(get(ret.counts.ok, "Add") + get(ret.counts.ok, "Modify")
                             + get(ret.counts.ok, "Delete")
                             + get(ret.counts.ok, "TypeChange"))
        /\ CallsWithLetter(ret.calls, "A") = get(ret.counts.ok, "Add")
        /\ CallsWithLetter(ret.calls, "M") = get(ret.counts.ok, "Modify")
        /\ CallsWithLetter(ret.calls, "D") = get(ret.counts.ok, "Delete")
        /\ CallsWithLetter(ret.calls, "T") = get(ret.counts.ok, "TypeChange")

\* both readers were asked about scan 1 of a store that meets the condition:
\* scan 1 has a modified and a deleted item, and both readers count two
C11_Witness ==
    /\ BothAsked
    /\ EveryChangeHasItsItem
    /\ EveryChangeIsPersistedKind
    /\ ret.scan_id = 1
    /\ Len(changes) = 2
    /\ ret.result = Ok(2)
    /\ get(ret.counts.ok, "Modify") = 1
    /\ get(ret.counts.ok, "Delete") = 1

\* without the two conditions on the store the readers need not agree
C11_AgreeOnAnyStore ==
    BothAsked =>
        ret.result = Ok(get(ret.counts.ok, "Add") + get(ret.counts.ok, "Modify")
                          + get(ret.counts.ok, "Delete")
                          + get(ret.counts.ok, "TypeChange"))

====
